---- MODULE Spec2Model ----
(***************************************************************************)
(* Model of experiment/coverage_utils.py.                                  *)
(*                                                                         *)
(*  - Spec:        the Aggregation Engine, get_all_covered_regions, with   *)
(*                 its pool of get_covered_region worker tasks, the        *)
(*                 manager queue and the consumer's receive loop.          *)
(*  - LiveSpec:    Spec with the consumer scheduled fairly: the process    *)
(*                 running get_all_covered_regions is never suspended for  *)
(*                 ever. Worker tasks may stall in an external call.       *)
(*  - ExtractSpec: TrialCoverage.get_current_covered_regions applied to a  *)
(*                 summary file drawn from a bounded set of files.         *)
(*  - ReportSpec:  the Report Pipeline: generate_cov_reports (pool) and    *)
(*                 generate_cov_reports_seq run side by side on the same   *)
(*                 arguments, store and tools, each on its own copy of     *)
(*                 report_dir.                                             *)
(*  - StuckSpec:   Spec in which the external call of one worker task may  *)
(*                 hang, every other process being scheduled fairly.       *)
(*  - WritesSpec:  a run of the engine or a run of the Report Pipeline,    *)
(*                 for the files that the worker tasks write.              *)
(*                                                                         *)
(* Strings that the code concatenates or splits are sequences of           *)
(* one-character strings, so that str.split(',') and fuzzer + ' ' +        *)
(* benchmark are computed, not assumed.                                    *)
(***************************************************************************)
EXTENDS Integers, Sequences, FiniteSets, TLC

VARIABLES
    experiment_config,    \* the dict handed to get_all_covered_regions
    poolSize,             \* number of worker processes of multiprocessing.Pool()
    task,                 \* task[i]: the i-th get_covered_region call of starmap_async
    cov_summary,          \* cov_summary[t]: the file cov_summary.json of trial t
    q,                    \* the manager queue, oldest message first
    all_covered_regions,  \* the consumer's dict
    pc,                   \* where the consumer is in get_all_covered_regions
    result,               \* the dict get_all_covered_regions returned
    log,                  \* error-level log records written so far
    received,             \* history: the messages q.get returned, in order
    summary_file,         \* ExtractSpec: the summary file of the trial
    extraction,           \* ExtractSpec: what get_current_covered_regions did
    report_args,          \* ReportSpec: experiments, benchmarks, fuzzers
    staged,               \* ReportSpec: staged[m]: benchmarks set up so far
    bench_dir,            \* ReportSpec: bench_dir[m][b]: build extracted for b
    fuzzer_dir,           \* ReportSpec: fuzzer_dir[m][<<b, f>>]: files of the dir
    rtask,                \* ReportSpec: rtask[m][i]: the i-th generate_cov_report
    rlog,                 \* ReportSpec: rlog[m]: error records logged
    rcalls                \* ReportSpec: rcalls[m][i]: history of the store and
                          \*   tool calls made by task i (by the staging loop
                          \*   for i = 0), oldest first

engineVars == <<experiment_config, poolSize, task, cov_summary, q,
                all_covered_regions, pc, result, log, received>>

extractVars == <<summary_file, extraction>>

reportVars == <<report_args, staged, bench_dir, fuzzer_dir, rtask, rlog, rcalls>>

vars == <<engineVars, extractVars, reportVars>>

---------------------------------------------------------------------------
(* Bounds of the model. *)

\* multiprocessing.Pool() starts os.cpu_count() processes: 1..MaxPool here.
MaxPool == 2

\* Number of rows of the trial table that the database holds.
MaxTrials == 5

\* ExtractSpec: number of region records of one function of a summary.
MaxRegions == 2

---------------------------------------------------------------------------
(* Values. *)

Range(s) == {s[i] : i \in 1..Len(s)}

\* The sequences without repetition that enumerate the finite set S.
SetToSeqs(S) == {s \in [1..Cardinality(S) -> S] : Range(s) = S}

Min(a, b) == IF a < b THEN a ELSE b

\* A dict with no entry.
EmptyDict == [k \in {} |-> {}]

\* dict.update(other): the entries of other replace those of d.
DictUpdate(d, other) ==
    [k \in DOMAIN d \cup DOMAIN other |->
        IF k \in DOMAIN other THEN other[k] ELSE d[k]]

\* str.split(sep): the pieces of s between occurrences of sep (possibly empty).
RECURSIVE Split(_, _)
Split(s, sep) ==
    IF \A i \in 1..Len(s) : s[i] # sep
    THEN <<s>>
    ELSE LET i == CHOOSE n \in 1..Len(s) :
                      s[n] = sep /\ \A j \in 1..(n - 1) : s[j] # sep
         IN  <<SubSeq(s, 1, i - 1)>> \o Split(SubSeq(s, i + 1, Len(s)), sep)

\* get_fuzzer_benchmark_key: fuzzer + ' ' + benchmark
get_fuzzer_benchmark_key(fuzzer, benchmark) == fuzzer \o <<" ">> \o benchmark

---------------------------------------------------------------------------
(* Python sequence indexing. *)

\* s[i] is defined (no IndexError): 0 <= i < len(s) or -len(s) <= i < 0.
PyIndexOk(s, i) == IF i >= 0 THEN i < Len(s) ELSE -i <= Len(s)

\* s[i] of Python: 0-based, negative i counted from the end.
PyIndex(s, i) == IF i >= 0 THEN s[i + 1] ELSE s[Len(s) + i + 1]

\* s[:n] of Python, n >= 0.
PyPrefix(s, n) == SubSeq(s, 1, Min(n, Len(s)))

---------------------------------------------------------------------------
(* The coverage summary file and the Region Extractor.                     *)
(*                                                                         *)
(* A file is [exists, lines]. A line is [json, data]: json says whether    *)
(* json.loads accepts the line, data is the value of its 'data' member, a  *)
(* list of export objects [functions]; a function_data is                  *)
(* [has_regions, regions] and a region record is a sequence of integers.   *)

NoFile == [exists |-> FALSE, lines |-> <<>>]

File(lines) == [exists |-> TRUE, lines |-> lines]

\* A line json.loads rejects (a warning the tool printed, a cut-off document).
TextLine == [json |-> FALSE, data |-> <<>>]

\* The line holding the JSON document {"data": [{"functions": functions}]}.
JsonLine(functions) == [json |-> TRUE, data |-> <<[functions |-> functions]>>]

\* A JSON document whose 'data' list is empty.
JsonNoData == [json |-> TRUE, data |-> <<>>]

FunctionData(regions) == [has_regions |-> TRUE, regions |-> regions]

\* A function object without the 'regions' member.
FunctionNoRegions == [has_regions |-> FALSE, regions |-> <<>>]

\* get_coverage_infomation: open, readlines()[-1], json.loads.
\* [exc, data]: the exception raised, "none" when the document is returned.
get_coverage_infomation(file) ==
    IF ~file.exists THEN [exc |-> "FileNotFoundError", data |-> <<>>]
    ELSE IF ~PyIndexOk(file.lines, -1) THEN [exc |-> "IndexError", data |-> <<>>]
    ELSE LET last == PyIndex(file.lines, -1)
         IN  IF last.json THEN [exc |-> "none", data |-> last.data]
             ELSE [exc |-> "JSONDecodeError", data |-> <<>>]

hit_index == 4

type_index == -1

\* Faulty variant: a region is taken when it is hit, whatever its kind.
RegionCoveredAnyKind(region) == PyIndex(region, hit_index) # 0

\* region[hit_index] != 0 and region[type_index] == 0
RegionCovered(region) ==
    PyIndex(region, hit_index) # 0 /\ PyIndex(region, type_index) = 0

\* The inner loop of get_current_covered_regions over one function's regions,
\* from covered_regions = acc: [exc, covered].
RECURSIVE ScanRegions(_, _)
ScanRegions(regions, acc) ==
    IF regions = <<>> THEN [exc |-> "none", covered |-> acc]
    ELSE LET region == Head(regions)
         IN  IF ~PyIndexOk(region, hit_index)
             THEN [exc |-> "IndexError", covered |-> acc]
             ELSE ScanRegions(Tail(regions),
                      IF RegionCovered(region)
                      THEN acc \cup {PyPrefix(region, hit_index)}
                      ELSE acc)

\* The outer loop over functions_data.
RECURSIVE ScanFunctions(_, _)
ScanFunctions(functions_data, acc) ==
    IF functions_data = <<>> THEN [exc |-> "none", covered |-> acc]
    ELSE LET function_data == Head(functions_data)
         IN  IF ~function_data.has_regions
             THEN [exc |-> "KeyError", covered |-> acc]
             ELSE LET r == ScanRegions(function_data.regions, acc)
                  IN  IF r.exc # "none" THEN r
                      ELSE ScanFunctions(Tail(functions_data), r.covered)

\* The body of the try block: [exc, covered], covered being covered_regions
\* when the block ends or the exception is raised.
TryExtract(file) ==
    LET info == get_coverage_infomation(file)
    IN  IF info.exc # "none" THEN [exc |-> info.exc, covered |-> {}]
        ELSE IF ~PyIndexOk(info.data, 0) THEN [exc |-> "IndexError", covered |-> {}]
        ELSE ScanFunctions(PyIndex(info.data, 0).functions, {})

\* Faulty variant: except OSError, which lets the other exceptions through.
CaughtOSErrorOnly(exc) == exc = "FileNotFoundError"

\* except Exception: every exception the try block raises here is caught.
Caught(exc) == exc \in {"FileNotFoundError", "IndexError", "KeyError",
                        "JSONDecodeError"}

\* TrialCoverage.get_current_covered_regions on the trial's summary file:
\* [covered, logged, raised]. A caught exception is logged and covered_regions
\* is returned as it is at that point; raised says an exception escapes.
get_current_covered_regions(file) ==
    LET r == TryExtract(file)
    IN  [covered |-> r.covered,
         logged |-> r.exc # "none" /\ Caught(r.exc),
         raised |-> r.exc # "none" /\ ~Caught(r.exc)]

---------------------------------------------------------------------------
(* The environment: the trial table of the database and the export tool.  *)

AFL == <<"a", "f", "l">>

LF == <<"l", "f">>

B1 == <<"b", "1">>

B2 == <<"b", "2">>

\* Names with a blank in them: split(',') keeps blanks.
FA == <<"a">>

FAB == <<"a", " ", "b">>

BBC == <<"b", " ", "c">>

BC == <<"c">>

Row(id, experiment, fuzzer, benchmark, preempted) ==
    [id |-> id, experiment |-> experiment, fuzzer |-> fuzzer,
     benchmark |-> benchmark, preempted |-> preempted]

\* The rows of models.Trial, in id order.
TrialTable ==
    << Row(1, "e", AFL, B1, FALSE),
       Row(2, "e", AFL, B1, FALSE),
       Row(3, "e", FA, BBC, FALSE),
       Row(4, "e", FAB, BC, FALSE),
       Row(5, "e", AFL, B2, TRUE),
       Row(6, "x", LF, B1, FALSE) >>

TrialRows == SubSeq(TrialTable, 1, Min(MaxTrials, Len(TrialTable)))

TrialIdSet == {TrialRows[n].id : n \in 1..Len(TrialRows)}

\* The ids of the rows of a sequence of rows that satisfy the filter, in order.
RECURSIVE FilterIds(_, _, _, _)
FilterIds(rows, experiment, fuzzer, benchmark) ==
    IF rows = <<>> THEN <<>>
    ELSE LET row == Head(rows)
             rest == FilterIds(Tail(rows), experiment, fuzzer, benchmark)
         IN  IF /\ row.experiment = experiment
                /\ row.fuzzer = fuzzer
                /\ row.benchmark = benchmark
                /\ ~row.preempted
             THEN <<row.id>> \o rest
             ELSE rest

\* get_trial_ids: ids of the non-preempted trials of the pair.
get_trial_ids(experiment, fuzzer, benchmark) ==
    FilterIds(TrialRows, experiment, fuzzer, benchmark)

\* Region records as llvm-cov export writes them:
\* [line, col, line_end, col_end, count, file, expanded_file, kind].
RecA == <<10, 1, 10, 5, 1, 0, 0, 0>>

\* The same region, hit more often.
RecA7 == <<10, 1, 10, 5, 7, 0, 0, 0>>

RecB == <<20, 3, 20, 9, 2, 0, 0, 0>>

\* Not hit.
RecB0 == <<20, 3, 20, 9, 0, 0, 0, 0>>

\* Hit, but an expansion region (kind 1), not a code region.
RecC1 == <<30, 2, 31, 4, 3, 0, 1, 1>>

\* What llvm-cov export prints for the profile of trial t when it succeeds.
ExportDoc(t) ==
    CASE t = 1 -> <<FunctionData(<<RecA>>)>>
      [] t = 2 -> <<FunctionData(<<RecA7, RecB0>>), FunctionData(<<RecB, RecC1>>)>>
      [] t = 3 -> <<FunctionData(<<RecB, RecB0>>)>>
      [] t = 4 -> <<FunctionData(<<RecC1>>), FunctionData(<<RecA>>)>>
      [] OTHER -> <<FunctionData(<<>>)>>

\* The outcomes of new_process.execute(command, output_file, expect_zero=False)
\* in generate_summary: the exit status and what the opened file holds after.
\* open(..., 'w') has created or emptied the file in either case.
ExportOutcomes(t) ==
    { [retcode |-> 0, file |-> File(<<JsonLine(ExportDoc(t))>>)],
      [retcode |-> 1, file |-> File(<<>>)] }

\* The experiment configurations the engine is run with.
Config(experiment, fuzzers, benchmarks) ==
    [experiment |-> experiment, fuzzers |-> fuzzers, benchmarks |-> benchmarks]

ConfigSet ==
    { Config("e", AFL \o <<",">> \o LF, B1),
      Config("e", AFL \o <<",">> \o AFL, B1),
      Config("e", AFL, B1 \o <<",">> \o B2),
      Config("e", FA \o <<",">> \o FAB, BBC \o <<",">> \o BC) }

---------------------------------------------------------------------------
(* get_all_covered_regions: the dispatch. *)

benchmarks == Split(experiment_config.benchmarks, ",")

fuzzers == Split(experiment_config.fuzzers, ",")

experiment == experiment_config.experiment

\* [(experiment, fuzzer, benchmark, q) for fuzzer in fuzzers
\*                                        for benchmark in benchmarks]
get_covered_region_args ==
    [n \in 1..(Len(fuzzers) * Len(benchmarks)) |->
        [experiment |-> experiment,
         fuzzer |-> fuzzers[((n - 1) \div Len(benchmarks)) + 1],
         benchmark |-> benchmarks[((n - 1) % Len(benchmarks)) + 1]]]

Tasks == DOMAIN task

TaskKey(i) ==
    get_fuzzer_benchmark_key(get_covered_region_args[i].fuzzer,
                             get_covered_region_args[i].benchmark)

TaskTrialIds(i) ==
    get_trial_ids(get_covered_region_args[i].experiment,
                  get_covered_region_args[i].fuzzer,
                  get_covered_region_args[i].benchmark)

\* A task the pool has handed to a worker process that has not finished it.
Running(i) == task[i].st \in {"summary", "stuck", "regions", "put", "return"}

\* A task whose call has ended, by returning or by raising.
Finished(i) == task[i].st \in {"done", "raised"}

\* result.ready() of the MapResult: every task of the map has ended.
ResultReady == \A i \in Tasks : Finished(i)

---------------------------------------------------------------------------
(* The worker tasks: get_covered_region. *)

\* The trial the task is working on.
TaskTrial(i) == TaskTrialIds(i)[task[i].idx]

\* Faulty variant: q.put inside the loop over the trials, after each trial.
PutAfterEachTrial(i) == [st |-> "put", idx |-> task[i].idx]

\* After trial number idx of the task: the next trial, or q.put.
AfterTrial(i) ==
    IF task[i].idx < Len(TaskTrialIds(i))
    THEN [st |-> "summary", idx |-> task[i].idx + 1]
    ELSE [st |-> "put", idx |-> task[i].idx]

\* Faulty variant: a task is started only while no other task is running.
StartTaskWhenPoolIdle(i) ==
    /\ task[i].st = "queued"
    /\ \A j \in Tasks : j < i => task[j].st # "queued"
    /\ Cardinality({j \in Tasks : Running(j)}) = 0
    /\ task' = [task EXCEPT ![i] =
                   [st |-> IF TaskTrialIds(i) = <<>> THEN "put" ELSE "summary",
                    idx |-> IF TaskTrialIds(i) = <<>> THEN 0 ELSE 1,
                    covered_regions |-> {},
                    rets |-> <<>>,
                    puts |-> <<>>]]
    /\ UNCHANGED <<extractVars, reportVars, experiment_config, poolSize, cov_summary, q,
                   all_covered_regions, pc, result, log, received>>

\* A worker process takes the next task of the map, in the order of the
\* argument list: key = ..., covered_regions = {key: set()}, trial_ids = ...
\* (starmap_async cuts the list into chunks of ceil(len / (4 * processes))
\* tasks; with the lists of ConfigSet every chunk is a single task.)
StartTask(i) ==
    /\ task[i].st = "queued"
    /\ \A j \in Tasks : j < i => task[j].st # "queued"
    /\ Cardinality({j \in Tasks : Running(j)}) < poolSize
    /\ task' = [task EXCEPT ![i] =
                   [st |-> IF TaskTrialIds(i) = <<>> THEN "put" ELSE "summary",
                    idx |-> IF TaskTrialIds(i) = <<>> THEN 0 ELSE 1,
                    covered_regions |-> {},
                    rets |-> <<>>,
                    puts |-> <<>>]]
    /\ UNCHANGED <<extractVars, reportVars, experiment_config, poolSize, cov_summary, q,
                   all_covered_regions, pc, result, log, received>>

\* Faulty variant: new_process.execute without expect_zero=False, a non-zero
\* exit of the export tool raises out of generate_summary and of the task.
GenerateSummaryExpectZero(i) ==
    /\ task[i].st = "summary"
    /\ \E outcome \in ExportOutcomes(TaskTrial(i)) :
          /\ cov_summary' = [cov_summary EXCEPT ![TaskTrial(i)] = outcome.file]
          /\ log' = IF outcome.retcode # 0
                    THEN log \cup {[trial_id |-> TaskTrial(i),
                                    msg |-> "summary generation failed"]}
                    ELSE log
          /\ task' = [task EXCEPT ![i].st =
                         IF outcome.retcode # 0 THEN "raised" ELSE "regions"]
    /\ UNCHANGED <<extractVars, reportVars, experiment_config, poolSize, q, all_covered_regions, pc,
                   result, received>>

\* trial_coverage.generate_summary(0, summary_only=False): the export tool
\* writes the summary file; a non-zero exit is logged and the call returns.
GenerateSummary(i) ==
    /\ task[i].st = "summary"
    /\ \E outcome \in ExportOutcomes(TaskTrial(i)) :
          /\ cov_summary' = [cov_summary EXCEPT ![TaskTrial(i)] = outcome.file]
          /\ log' = IF outcome.retcode # 0
                    THEN log \cup {[trial_id |-> TaskTrial(i),
                                    msg |-> "summary generation failed"]}
                    ELSE log
    /\ task' = [task EXCEPT ![i].st = "regions"]
    /\ UNCHANGED <<extractVars, reportVars, experiment_config, poolSize, q, all_covered_regions, pc,
                   result, received>>

\* generate_summary raises (open() of the summary file for writing fails):
\* nothing in get_covered_region catches it, the call ends without q.put.
TaskRaise(i) ==
    /\ task[i].st = "summary"
    /\ task' = [task EXCEPT ![i].st = "raised"]
    /\ UNCHANGED <<extractVars, reportVars, experiment_config, poolSize, cov_summary, q,
                   all_covered_regions, pc, result, log, received>>

\* The export tool that generate_summary runs never exits: new_process.execute
\* is called without a timeout, the task stays in the call and keeps its
\* worker process. StuckSpec lets this happen to one task.
ToolHangs(i) ==
    /\ task[i].st = "summary"
    /\ \A j \in Tasks : task[j].st # "stuck"
    /\ task' = [task EXCEPT ![i].st = "stuck"]
    /\ UNCHANGED <<extractVars, reportVars, experiment_config, poolSize, cov_summary, q,
                   all_covered_regions, pc, result, log, received>>

\* new_covered_regions = trial_coverage.get_current_covered_regions()
\* covered_regions[key] = covered_regions[key].union(new_covered_regions)
UnionRegions(covered_regions, new_covered_regions) ==
    covered_regions \cup new_covered_regions

CoveredRegions(i) ==
    /\ task[i].st = "regions"
    /\ LET r == get_current_covered_regions(cov_summary[TaskTrial(i)])
       IN  /\ task' = [task EXCEPT ![i] =
                          [st |-> IF r.raised THEN "raised" ELSE AfterTrial(i).st,
                           idx |-> AfterTrial(i).idx,
                           covered_regions |->
                               UnionRegions(task[i].covered_regions, r.covered),
                           rets |-> Append(task[i].rets, r.covered),
                           puts |-> task[i].puts]]
           /\ log' = IF r.logged
                     THEN log \cup {[trial_id |-> TaskTrial(i),
                                     msg |-> "summary defective or missing"]}
                     ELSE log
    /\ UNCHANGED <<extractVars, reportVars, experiment_config, poolSize, cov_summary, q,
                   all_covered_regions, pc, result, received>>

\* The message of a task: the single-entry dict {key: covered_regions[key]}.
TaskMessage(i) == TaskKey(i) :> task[i].covered_regions

\* q.put(covered_regions)
QPut(i) ==
    /\ task[i].st = "put"
    /\ q' = Append(q, TaskMessage(i))
    /\ task' = [task EXCEPT ![i].st = "return",
                            ![i].puts = Append(@, TaskMessage(i))]
    /\ UNCHANGED <<extractVars, reportVars, experiment_config, poolSize, cov_summary,
                   all_covered_regions, pc, result, log, received>>

\* The call returns and the pool records the task's result.
TaskReturn(i) ==
    /\ task[i].st = "return"
    /\ task' = [task EXCEPT ![i].st = "done"]
    /\ UNCHANGED <<extractVars, reportVars, experiment_config, poolSize, cov_summary, q,
                   all_covered_regions, pc, result, log, received>>

---------------------------------------------------------------------------
(* The consumer: the receive loop of get_all_covered_regions. *)

\* Faulty variant: the received set is united with the set stored under the key.
MergeUnion(all, covered_regions) ==
    [k \in DOMAIN all \cup DOMAIN covered_regions |->
        (IF k \in DOMAIN all THEN all[k] ELSE {})
            \cup (IF k \in DOMAIN covered_regions THEN covered_regions[k] ELSE {})]

\* Faulty variant: all_covered_regions = covered_regions, the earlier entries are lost.
MergeAssign(all, covered_regions) == covered_regions

\* all_covered_regions.update(covered_regions)
Merge(all, covered_regions) == DictUpdate(all, covered_regions)

\* q.get(timeout=...) returns the oldest message; it is merged.
QGet ==
    /\ pc = "get"
    /\ q # <<>>
    /\ all_covered_regions' = Merge(all_covered_regions, Head(q))
    /\ received' = Append(received, Head(q))
    /\ q' = Tail(q)
    /\ UNCHANGED <<extractVars, reportVars, experiment_config, poolSize, task, cov_summary, pc,
                   result, log>>

\* q.get(timeout=...) finds the queue empty until the timeout: queue.Empty.
QGetEmpty ==
    /\ pc = "get"
    /\ q = <<>>
    /\ pc' = "empty"
    /\ UNCHANGED <<extractVars, reportVars, experiment_config, poolSize, task, cov_summary, q,
                   all_covered_regions, result, log, received>>

\* Faulty variant: break on the first queue.Empty, without result.ready().
LoopExitOnTimeout == TRUE

\* Faulty variant: the loop ends only when every task has returned normally.
LoopExitWhenAllSucceeded == \A i \in Tasks : task[i].st = "done"

\* except queue.Empty: if result.ready(): break
LoopExit == ResultReady

ReadyCheck ==
    /\ pc = "empty"
    /\ pc' = IF LoopExit THEN "exited" ELSE "get"
    /\ UNCHANGED <<extractVars, reportVars, experiment_config, poolSize, task, cov_summary, q,
                   all_covered_regions, result, log, received>>

\* for key in all_covered_regions: ... = list(all_covered_regions[key]);
\* return all_covered_regions. list(set) is in no particular order.
Return ==
    /\ pc = "exited"
    /\ result' \in {r \in [DOMAIN all_covered_regions ->
                              UNION {SetToSeqs(all_covered_regions[k]) :
                                        k \in DOMAIN all_covered_regions}] :
                       \A k \in DOMAIN r : Range(r[k]) = all_covered_regions[k]}
    /\ pc' = "returned"
    /\ UNCHANGED <<extractVars, reportVars, experiment_config, poolSize, task, cov_summary, q,
                   all_covered_regions, log, received>>

---------------------------------------------------------------------------

\* The variables of ExtractSpec while the engine runs.
ExtractIdle ==
    /\ summary_file = NoFile
    /\ extraction = [done |-> FALSE, covered |-> {}, logged |-> FALSE,
                     raised |-> FALSE]

\* The variables of ReportSpec while the pipeline is not run.
ReportIdle ==
    /\ report_args = [experiments |-> <<>>, benchmarks |-> <<>>, fuzzers |-> <<>>]
    /\ staged = <<>>
    /\ bench_dir = <<>>
    /\ fuzzer_dir = <<>>
    /\ rtask = <<>>
    /\ rlog = <<>>
    /\ rcalls = <<>>

Init ==
    /\ ExtractIdle
    /\ ReportIdle
    /\ experiment_config \in ConfigSet
    /\ poolSize \in 1..MaxPool
    /\ task = [i \in DOMAIN get_covered_region_args |->
                  [st |-> "queued", idx |-> 0, covered_regions |-> {},
                   rets |-> <<>>, puts |-> <<>>]]
    /\ cov_summary = [t \in TrialIdSet |-> NoFile]
    /\ q = <<>>
    /\ all_covered_regions = EmptyDict
    /\ pc = "get"
    /\ result = EmptyDict
    /\ log = {}
    /\ received = <<>>

Next ==
    \/ \E i \in Tasks : StartTask(i)
    \/ \E i \in Tasks : GenerateSummary(i)
    \/ \E i \in Tasks : TaskRaise(i)
    \/ \E i \in Tasks : CoveredRegions(i)
    \/ \E i \in Tasks : QPut(i)
    \/ \E i \in Tasks : TaskReturn(i)
    \/ QGet
    \/ QGetEmpty
    \/ ReadyCheck
    \/ Return

Spec == Init /\ [][Next]_vars

LiveSpec ==
    Spec /\ WF_vars(QGet \/ QGetEmpty \/ ReadyCheck \/ Return)

\* StuckSpec: the engine when the external call of one task may hang. The
\* operating system keeps scheduling the consumer and every worker process
\* that is not inside the hanging call.
StuckNext ==
    \/ \E i \in Tasks : StartTask(i)
    \/ \E i \in Tasks : GenerateSummary(i)
    \/ \E i \in Tasks : TaskRaise(i)
    \/ \E i \in Tasks : ToolHangs(i)
    \/ \E i \in Tasks : CoveredRegions(i)
    \/ \E i \in Tasks : QPut(i)
    \/ \E i \in Tasks : TaskReturn(i)
    \/ QGet
    \/ QGetEmpty
    \/ ReadyCheck
    \/ Return

\* A free worker process takes the next task of the map.
TakeTask == \E i \in Tasks : StartTask(i)

\* Task i is not at a step of get_covered_region that its worker process can
\* take. At "summary" the steps GenerateSummary(i) and TaskRaise(i) are
\* enabled, at "regions" CoveredRegions(i), at "put" QPut(i), at "return"
\* TaskReturn(i), and nowhere else; each leaves the state it is taken in and
\* a task passes through boundedly many of them. Weak fairness of the steps
\* of task i is therefore []<>AtRest(i).
AtRest(i) ==
    i \in Tasks => task[i].st \notin {"summary", "regions", "put", "return"}

\* The task numbers of the longest argument list of ConfigSet.
TaskIds == 1..4

StuckSpec ==
    /\ Init
    /\ [][StuckNext]_vars
    /\ WF_vars(QGet \/ QGetEmpty \/ ReadyCheck \/ Return)
    /\ WF_vars(TakeTask)
    /\ \A i \in TaskIds : []<>AtRest(i)

---------------------------------------------------------------------------
(* ExtractSpec: get_current_covered_regions on one summary file. *)

\* A record too short to have a hit count.
RecShort == <<10, 1, 10>>

RegionRecords == {RecA, RecA7, RecB, RecB0, RecC1, RecShort}

SeqsUpTo(S, n) == UNION {[1..k -> S] : k \in 0..n}

FunctionDatas ==
    {FunctionData(rs) : rs \in SeqsUpTo(RegionRecords, MaxRegions)}
        \cup {FunctionNoRegions}

\* The places of the document in the file: alone, after a warning line, or
\* followed by a line of text.
FileOf(layout, functions) ==
    CASE layout = "document" -> File(<<JsonLine(functions)>>)
      [] layout = "warning, document" -> File(<<TextLine, JsonLine(functions)>>)
      [] layout = "document, text" -> File(<<JsonLine(functions), TextLine>>)

Layouts == {"document", "warning, document", "document, text"}

\* summary_file is one of the summary files examined: missing, empty, text
\* only, a document without data, or a document of no, one or two functions
\* in one of the layouts.
IsSummaryFile ==
    \/ summary_file \in {NoFile, File(<<>>), File(<<TextLine>>), File(<<JsonNoData>>)}
    \/ \E layout \in Layouts : summary_file = FileOf(layout, <<>>)
    \/ \E layout \in Layouts : \E f \in FunctionDatas :
          summary_file = FileOf(layout, <<f>>)
    \/ \E layout \in Layouts : \E f \in FunctionDatas : \E g \in FunctionDatas :
          summary_file = FileOf(layout, <<f, g>>)

\* The engine's variables while a single extraction is examined.
EngineIdle ==
    /\ experiment_config = Config("e", AFL, B1)
    /\ task = <<>>
    /\ cov_summary = <<>>
    /\ q = <<>>
    /\ all_covered_regions = EmptyDict
    /\ pc = "idle"
    /\ result = EmptyDict
    /\ log = {}
    /\ received = <<>>

ExtractInit ==
    /\ EngineIdle
    /\ ReportIdle
    /\ poolSize = 1
    /\ IsSummaryFile
    /\ extraction = [done |-> FALSE, covered |-> {}, logged |-> FALSE,
                     raised |-> FALSE]

\* new_covered_regions = trial_coverage.get_current_covered_regions()
Extract ==
    /\ ~extraction.done
    /\ LET r == get_current_covered_regions(summary_file)
       IN  extraction' = [done |-> TRUE, covered |-> r.covered,
                          logged |-> r.logged, raised |-> r.raised]
    /\ UNCHANGED <<summary_file, engineVars, reportVars>>

ExtractNext == Extract

ExtractSpec == ExtractInit /\ [][ExtractNext]_vars

---------------------------------------------------------------------------
(* ReportSpec: the Report Pipeline.                                        *)
(*                                                                         *)
(* A directory report_dir/<benchmark>/<fuzzer> is a function from file     *)
(* names to file contents. A content is [type, counts, binary]: a profile  *)
(* ("profdata") carries the execution counts it holds, per trial that      *)
(* contributed them; a rendered page ("html") carries the counts it shows  *)
(* and the build whose binary it was rendered with.                        *)

Modes == {"parallel", "sequential"}

\* The archives coverage-binaries/coverage-build-<benchmark>.tar.gz of the
\* filestore, as <<experiment, benchmark>>.
ArchiveStore == {<<"e", B1>>, <<"x", B1>>, <<"x", B2>>}

ReportArgs(experiments, benchmark_list, fuzzer_list) ==
    [experiments |-> experiments, benchmarks |-> benchmark_list,
     fuzzers |-> fuzzer_list]

\* The arguments the pipeline is run with.
ReportArgsSet ==
    { ReportArgs(<<"e">>, <<B1>>, <<AFL, LF>>),
      ReportArgs(<<"x", "e">>, <<B1, B2>>, <<AFL>>),
      ReportArgs(<<"e">>, <<B1>>, <<AFL, AFL>>),
      ReportArgs(<<"e", "x">>, <<B2, B1>>, <<LF, AFL>>),
      ReportArgs(<<"e", "x">>, <<BBC, B1>>, <<AFL>>) }

\* [(experiments, benchmark, fuzzer, report_dir) for benchmark in benchmarks
\*                                                for fuzzer in fuzzers]
generate_cov_report_args ==
    [n \in 1..(Len(report_args.benchmarks) * Len(report_args.fuzzers)) |->
        [benchmark |->
             report_args.benchmarks[((n - 1) \div Len(report_args.fuzzers)) + 1],
         fuzzer |->
             report_args.fuzzers[((n - 1) % Len(report_args.fuzzers)) + 1]]]

ReportTasks == DOMAIN generate_cov_report_args

\* Faulty variant: the reports of a benchmark all go to report_dir/<benchmark>.
benchmark_report_dir_only(i) == <<generate_cov_report_args[i].benchmark>>

\* CoverageReporter.fuzzer_report_dir: report_dir/<benchmark>/<fuzzer>
fuzzer_report_dir(i) ==
    <<generate_cov_report_args[i].benchmark, generate_cov_report_args[i].fuzzer>>

\* get_profdata_file_name: 'data-{id}.profdata'
get_profdata_file_name(trial_id) == <<"data-", trial_id, ".profdata">>

\* CoverageReporter.merged_profdata_file, within fuzzer_report_dir.
merged_profdata_file == <<"merged.profdata">>

\* The page llvm-cov show writes into its output directory.
index_html == <<"index.html">>

NoCounts == [t \in TrialIdSet |-> 0]

\* The profile data-<id>.profdata that the filestore holds for a trial.
TrialProfile(trial_id) ==
    [type |-> "profdata",
     counts |-> [t \in TrialIdSet |-> IF t = trial_id THEN 1 ELSE 0],
     binary |-> "-"]

\* What an earlier run of the pipeline left in a pair's directory.
StaleDir ==
    DictUpdate(merged_profdata_file :> [type |-> "profdata", counts |-> NoCounts,
                                        binary |-> "-"],
               index_html :> [type |-> "html", counts |-> NoCounts,
                              binary |-> "old"])

\* One call of the store or of an external tool, as the history records it:
\* the benchmark position (staging) or the task that made it, the experiment
\* whose archive was copied, the input files a merge was given.
Call(tool, n, from_experiment, inputs) ==
    [tool |-> tool, task |-> n, experiment |-> from_experiment, inputs |-> inputs]

\* Faulty variant: the loop without its break, the last archive found wins.
RECURSIVE LastArchive(_, _)
LastArchive(experiment_names, benchmark) ==
    IF experiment_names = <<>> THEN "none"
    ELSE LET later == LastArchive(Tail(experiment_names), benchmark)
         IN  IF later # "none" THEN later
             ELSE IF <<Head(experiment_names), benchmark>> \in ArchiveStore
                  THEN Head(experiment_names)
                  ELSE "none"

\* set_up_coverage_file: the first experiment, in the order given, whose
\* archive exists in the filestore; "none" when no experiment has one.
RECURSIVE FirstArchive(_, _)
FirstArchive(experiment_names, benchmark) ==
    IF experiment_names = <<>> THEN "none"
    ELSE IF <<Head(experiment_names), benchmark>> \in ArchiveStore
         THEN Head(experiment_names)
         ELSE FirstArchive(Tail(experiment_names), benchmark)

\* set_up_coverage_files, one benchmark of the loop: the archive found is
\* copied to report_dir/<benchmark> and extracted there.
SetUpCoverageFile(m) ==
    /\ staged[m] < Len(report_args.benchmarks)
    /\ LET benchmark == report_args.benchmarks[staged[m] + 1]
           found == FirstArchive(report_args.experiments, benchmark)
       IN
       /\ bench_dir' = [bench_dir EXCEPT ![m][benchmark] =
                            IF found = "none" THEN @ ELSE found]
       /\ rcalls' = [rcalls EXCEPT ![m][0] =
                         IF found = "none" THEN @
                         ELSE Append(@, Call("cp+extract", staged[m] + 1, found, {}))]
    /\ staged' = [staged EXCEPT ![m] = @ + 1]
    /\ UNCHANGED <<engineVars, extractVars, report_args, fuzzer_dir, rtask, rlog>>

\* The files fetch_profdata_files copies: for each experiment, in order, the
\* profile of each trial of the pair, under its file name.
RECURSIVE FetchedFiles(_, _, _)
FetchedFiles(experiments, fuzzer, benchmark) ==
    IF experiments = <<>> THEN <<>>
    ELSE LET trial_ids == get_trial_ids(Head(experiments), fuzzer, benchmark)
         IN  [n \in 1..Len(trial_ids) |->
                 [name |-> get_profdata_file_name(trial_ids[n]),
                  content |-> TrialProfile(trial_ids[n])]]
             \o FetchedFiles(Tail(experiments), fuzzer, benchmark)

\* filestore_utils.cp of each file into the directory, in order.
RECURSIVE CopyInto(_, _)
CopyInto(dir, files) ==
    IF files = <<>> THEN dir
    ELSE CopyInto(DictUpdate(dir, Head(files).name :> Head(files).content),
                  Tail(files))

\* The sum of the counts of trial t over the files names of the directory.
RECURSIVE SumCounts(_, _, _)
SumCounts(dir, names, t) ==
    IF names = {} THEN 0
    ELSE LET n == CHOOSE x \in names : TRUE
         IN  dir[n].counts[t] + SumCounts(dir, names \ {n}, t)

\* llvm-profdata merge -sparse <src_files> -o <dst_file>: fails when it is
\* given no input or an input that is not a profile; else the output holds
\* the sums of the inputs' counts. [retcode, out].
llvm_profdata_merge(dir, src_files) ==
    IF src_files = {} \/ \E n \in src_files : dir[n].type # "profdata"
    THEN [retcode |-> 1, out |-> [type |-> "none", counts |-> NoCounts,
                                  binary |-> "-"]]
    ELSE [retcode |-> 0,
          out |-> [type |-> "profdata",
                   counts |-> [t \in TrialIdSet |-> SumCounts(dir, src_files, t)],
                   binary |-> "-"]]

\* Faulty variant: the tasks are dispatched without waiting for
\* set_up_coverage_files.
MayStartBeforeStaging(m, i) ==
    /\ rtask[m][i] = "queued"
    /\ \A j \in ReportTasks : j < i => rtask[m][j] # "queued"
    /\ IF m = "sequential"
       THEN \A j \in ReportTasks : j < i => rtask[m][j] = "done"
       ELSE Cardinality({j \in ReportTasks :
                            rtask[m][j] \in {"merge", "report"}}) < poolSize

\* The task the mode may start next: in the sequential mode the call that
\* follows the calls that have returned; in the pool the first task not yet
\* taken, when a worker process is free.
MayStart(m, i) ==
    /\ staged[m] = Len(report_args.benchmarks)
    /\ rtask[m][i] = "queued"
    /\ \A j \in ReportTasks : j < i => rtask[m][j] # "queued"
    /\ IF m = "sequential"
       THEN \A j \in ReportTasks : j < i => rtask[m][j] = "done"
       ELSE Cardinality({j \in ReportTasks :
                            rtask[m][j] \in {"merge", "report"}}) < poolSize

\* generator.fetch_profdata_files()
FetchProfdataFiles(m, i) ==
    /\ MayStart(m, i)
    /\ fuzzer_dir' = [fuzzer_dir EXCEPT ![m][fuzzer_report_dir(i)] =
                         CopyInto(@, FetchedFiles(report_args.experiments,
                                      generate_cov_report_args[i].fuzzer,
                                      generate_cov_report_args[i].benchmark))]
    /\ rcalls' = [rcalls EXCEPT ![m][i] = Append(@, Call("fetch", i, "-", {}))]
    /\ rtask' = [rtask EXCEPT ![m][i] = "merge"]
    /\ UNCHANGED <<engineVars, extractVars, report_args, staged, bench_dir, rlog>>

\* files_to_merge of merge_profdata_files: os.listdir(self.fuzzer_report_dir)
FilesToMerge(dir) == DOMAIN dir

\* generator.merge_profdata_files()
MergeProfdataFiles(m, i) ==
    /\ rtask[m][i] = "merge"
    /\ LET dir == fuzzer_dir[m][fuzzer_report_dir(i)]
           merged == llvm_profdata_merge(dir, FilesToMerge(dir))
       IN  /\ fuzzer_dir' = [fuzzer_dir EXCEPT ![m][fuzzer_report_dir(i)] =
                                IF merged.retcode = 0
                                THEN DictUpdate(dir, merged_profdata_file :> merged.out)
                                ELSE dir]
           /\ rlog' = [rlog EXCEPT ![m] =
                          IF merged.retcode # 0
                          THEN @ \cup {[task |-> i, msg |-> "merging failed"]}
                          ELSE @]
    /\ rcalls' = [rcalls EXCEPT ![m][i] =
                      Append(@, Call("llvm-profdata merge", i, "-",
                                     FilesToMerge(fuzzer_dir[m][fuzzer_report_dir(i)])))]
    /\ rtask' = [rtask EXCEPT ![m][i] = "report"]
    /\ UNCHANGED <<engineVars, extractVars, report_args, staged, bench_dir>>

\* llvm-cov show -format=html -output-dir=<fuzzer_report_dir> <binary_file>
\* -instr-profile=<merged_profdata_file>: fails without the binary or
\* without a merged profile. [retcode, out].
llvm_cov_show(dir, build) ==
    IF /\ build # "none"
       /\ merged_profdata_file \in DOMAIN dir
       /\ dir[merged_profdata_file].type = "profdata"
    THEN [retcode |-> 0,
          out |-> [type |-> "html", counts |-> dir[merged_profdata_file].counts,
                   binary |-> build]]
    ELSE [retcode |-> 1, out |-> [type |-> "none", counts |-> NoCounts,
                                  binary |-> "-"]]

\* generator.generate_cov_report()
GenerateCovReport(m, i) ==
    /\ rtask[m][i] = "report"
    /\ LET dir == fuzzer_dir[m][fuzzer_report_dir(i)]
           shown == llvm_cov_show(dir, bench_dir[m][generate_cov_report_args[i].benchmark])
       IN  /\ fuzzer_dir' = [fuzzer_dir EXCEPT ![m][fuzzer_report_dir(i)] =
                                IF shown.retcode = 0
                                THEN DictUpdate(dir, index_html :> shown.out)
                                ELSE dir]
           /\ rlog' = [rlog EXCEPT ![m] =
                          IF shown.retcode # 0
                          THEN @ \cup {[task |-> i, msg |-> "report generation failed"]}
                          ELSE @]
    /\ rcalls' = [rcalls EXCEPT ![m][i] = Append(@, Call("llvm-cov show", i, "-", {}))]
    /\ rtask' = [rtask EXCEPT ![m][i] = "done"]
    /\ UNCHANGED <<engineVars, extractVars, report_args, staged, bench_dir>>

\* The mode has run to its end: every report task has returned.
ReportsFinished(m) ==
    /\ staged[m] = Len(report_args.benchmarks)
    /\ \A i \in ReportTasks : rtask[m][i] = "done"

ReportInit ==
    /\ EngineIdle
    /\ ExtractIdle
    /\ poolSize \in 1..MaxPool
    /\ report_args \in ReportArgsSet
    /\ staged = [m \in Modes |-> 0]
    /\ bench_dir = [m \in Modes |-> [b \in Range(report_args.benchmarks) |-> "none"]]
    /\ \E stale \in BOOLEAN :
          fuzzer_dir = [m \in Modes |->
                           [d \in {fuzzer_report_dir(i) : i \in ReportTasks} |->
                               IF stale THEN StaleDir ELSE <<>>]]
    /\ rtask = [m \in Modes |-> [i \in ReportTasks |-> "queued"]]
    /\ rlog = [m \in Modes |-> {}]
    /\ rcalls = [m \in Modes |-> [i \in {0} \cup ReportTasks |-> <<>>]]

ReportNext ==
    \/ \E m \in Modes : SetUpCoverageFile(m)
    \/ \E m \in Modes : \E i \in ReportTasks : FetchProfdataFiles(m, i)
    \/ \E m \in Modes : \E i \in ReportTasks : MergeProfdataFiles(m, i)
    \/ \E m \in Modes : \E i \in ReportTasks : GenerateCovReport(m, i)

ReportSpec == ReportInit /\ [][ReportNext]_vars

---------------------------------------------------------------------------
(* WritesSpec: a run of the module is a run of the Aggregation Engine or a  *)
(* run of the Report Pipeline; this specification has both, each from its  *)
(* own start.                                                              *)

WritesInit == Init \/ ReportInit

WritesNext ==
    \/ \E i \in Tasks : StartTask(i)
    \/ \E i \in Tasks : GenerateSummary(i)
    \/ \E i \in Tasks : TaskRaise(i)
    \/ \E i \in Tasks : CoveredRegions(i)
    \/ \E i \in Tasks : QPut(i)
    \/ \E i \in Tasks : TaskReturn(i)
    \/ QGet
    \/ QGetEmpty
    \/ ReadyCheck
    \/ Return
    \/ \E m \in DOMAIN staged : SetUpCoverageFile(m)
    \/ \E m \in DOMAIN rtask : \E i \in ReportTasks : FetchProfdataFiles(m, i)
    \/ \E m \in DOMAIN rtask : \E i \in ReportTasks : MergeProfdataFiles(m, i)
    \/ \E m \in DOMAIN rtask : \E i \in ReportTasks : GenerateCovReport(m, i)

WritesSpec == WritesInit /\ [][WritesNext]_vars

---------------------------------------------------------------------------
(* Properties of the Region Extractor. *)

\* The functions of the document of the file's last line, when there is one.
SummaryFunctions ==
    IF /\ summary_file.exists
       /\ summary_file.lines # <<>>
       /\ summary_file.lines[Len(summary_file.lines)].json
       /\ summary_file.lines[Len(summary_file.lines)].data # <<>>
    THEN <<summary_file.lines[Len(summary_file.lines)].data[1].functions>>
    ELSE <<>>

\* The elements the traversal visits, in order: the region records of each
\* function, and the function itself where it has no 'regions'.
RECURSIVE Traversal(_)
Traversal(fs) ==
    IF fs = <<>> THEN <<>>
    ELSE (IF Head(fs).has_regions
          THEN [n \in 1..Len(Head(fs).regions) |->
                   [bad |-> Len(Head(fs).regions[n]) < 5,
                    rec |-> Head(fs).regions[n]]]
          ELSE <<[bad |-> TRUE, rec |-> <<>>]>>) \o Traversal(Tail(fs))

Visited == IF SummaryFunctions = <<>> THEN <<>> ELSE Traversal(SummaryFunctions[1])

\* The summary is well formed: the document is there and no element is bad.
WellFormed ==
    SummaryFunctions # <<>> /\ \A n \in 1..Len(Visited) : ~Visited[n].bad

\* The first four fields of the qualifying records among the first n visited:
\* fifth field not 0, last field 0.
QualifyingAmong(n) ==
    {<<Visited[m].rec[1], Visited[m].rec[2], Visited[m].rec[3], Visited[m].rec[4]>> :
        m \in {l \in 1..n : /\ ~Visited[l].bad
                            /\ Visited[l].rec[5] # 0
                            /\ Visited[l].rec[Len(Visited[l].rec)] = 0}}

\* The number of elements visited before the first bad one.
GoodPrefix ==
    IF \E n \in 1..Len(Visited) : Visited[n].bad
    THEN (CHOOSE n \in 1..Len(Visited) :
             Visited[n].bad /\ \A m \in 1..(n - 1) : ~Visited[m].bad) - 1
    ELSE Len(Visited)

\* C7: on a well-formed summary the returned set is exactly the set of the
\* four-field projections of the records with hit count not 0 and kind 0.
C7_ExactlyQualifyingRegions ==
    (extraction.done /\ WellFormed) =>
        /\ extraction.covered = QualifyingAmong(Len(Visited))
        /\ ~extraction.logged
        /\ ~extraction.raised

\* A well-formed summary in which a qualifying region occurs twice, next to a
\* record that is not hit and one of another kind, has been extracted.
C7_Witness ==
    /\ extraction.done
    /\ WellFormed
    /\ \E m, n \in 1..Len(Visited) :
          m # n /\ Visited[m].rec \in {RecA, RecA7} /\ Visited[n].rec \in {RecA, RecA7}
    /\ \E n \in 1..Len(Visited) : Visited[n].rec = RecB0
    /\ \E n \in 1..Len(Visited) : Visited[n].rec = RecC1
    /\ extraction.covered = {<<10, 1, 10, 5>>}

\* C8 as stated: on any extraction failure the empty set is returned, an
\* error is logged and nothing is raised.
C8_EmptyOnFailure ==
    (extraction.done /\ ~WellFormed) =>
        /\ extraction.covered = {}
        /\ extraction.logged
        /\ ~extraction.raised

\* C8 amended: on any extraction failure an error is logged, nothing is
\* raised, and the returned set holds the qualifying regions visited before
\* the failure; it is empty when the file is missing, empty or not decodable.
C8_PartialOnFailure ==
    (extraction.done /\ ~WellFormed) =>
        /\ extraction.covered = QualifyingAmong(GoodPrefix)
        /\ SummaryFunctions = <<>> => extraction.covered = {}
        /\ extraction.logged
        /\ ~extraction.raised

\* A summary with a malformed record after a qualifying one was extracted:
\* the qualifying region is returned and the error logged.
C8_Witness ==
    /\ extraction.done
    /\ ~WellFormed
    /\ GoodPrefix >= 1
    /\ extraction.covered # {}
    /\ extraction.logged

---------------------------------------------------------------------------
(* Properties of the Aggregation Engine. *)

\* The receive loop has ended (break taken).
LoopExited == pc \in {"exited", "returned"}

\* Task i has put its message on the queue.
HasPut(i) == task[i].st \in {"return", "done"}

\* No other dispatched task has the key of task i.
KeyUnique(i) == \A j \in Tasks : j # i => TaskKey(j) # TaskKey(i)

\* The keys of the configured cross-product.
ConfiguredKeys ==
    {get_fuzzer_benchmark_key(fuzzers[a], benchmarks[b]) :
        a \in 1..Len(fuzzers), b \in 1..Len(benchmarks)}

\* The messages msgs merged one after the other into the dict all.
RECURSIVE MergeSeq(_, _)
MergeSeq(all, msgs) ==
    IF msgs = <<>> THEN all
    ELSE MergeSeq(Merge(all, Head(msgs)), Tail(msgs))

\* The received messages in the order p, a permutation of their indices.
Reordered(p) == [n \in 1..Len(received) |-> received[p[n]]]

\* The set carried by the last received message that has key k.
LastReceived(k) ==
    LET n == CHOOSE m \in 1..Len(received) :
                 /\ k \in DOMAIN received[m]
                 /\ \A l \in (m + 1)..Len(received) : k \notin DOMAIN received[l]
    IN  received[n][k]

ReceivedKeys == UNION {DOMAIN received[n] : n \in 1..Len(received)}

\* C1: when the receive loop exits, the queue is empty and every message a
\* worker task has put has been received and merged into all_covered_regions.
C1_NoEarlyExit ==
    LoopExited =>
        /\ q = <<>>
        /\ \A i \in Tasks : HasPut(i) =>
              /\ \E n \in 1..Len(received) : received[n] = TaskMessage(i)
              /\ TaskKey(i) \in DOMAIN all_covered_regions

\* C2: the key set of the returned map is exactly the set of keys of the
\* configured cross-product (shown on the runs in which no task raised).
C2_KeySetIsCrossProduct ==
    (pc = "returned" /\ \A i \in Tasks : task[i].st # "raised")
        => DOMAIN result = ConfiguredKeys

\* C3: the regions returned under a pair's key are the union of what
\* get_current_covered_regions returned for the trials of the pair, one call
\* per trial id of the registry (shown on the tasks that ran to completion and
\* whose key no other task shares).
C3_UnionOfTrialRegions ==
    pc = "returned" =>
        \A i \in Tasks : (task[i].st = "done" /\ KeyUnique(i)) =>
            /\ Len(task[i].rets) = Len(TaskTrialIds(i))
            /\ TaskKey(i) \in DOMAIN result
            /\ Range(result[TaskKey(i)]) = UNION Range(task[i].rets)

\* C10: when both dispatch modes have run to their end on the same arguments,
\* the report directory of every (benchmark, fuzzer) pair has the same
\* contents in both.
C10_ModesEquivalent ==
    (ReportsFinished("parallel") /\ ReportsFinished("sequential")) =>
        \A i \in ReportTasks :
            fuzzer_dir["parallel"][fuzzer_report_dir(i)]
                = fuzzer_dir["sequential"][fuzzer_report_dir(i)]

\* C4: once every dispatched task has ended, by returning or by raising, the
\* receive loop eventually ends.
C4_LoopTerminates == ResultReady ~> LoopExited

\* The loop has ended in a run in which one task raised and another put a
\* message, which was received.
C4_Witness ==
    /\ LoopExited
    /\ \E i \in Tasks : task[i].st = "raised"
    /\ \E i \in Tasks : task[i].st = "done"
    /\ received # <<>>

TaskFailed(j) ==
    \/ task[j].st = "raised"
    \/ \E l \in log : l.trial_id \in Range(TaskTrialIds(j))

\* C9: when a task failed, the result of every other pair that completed is
\* in the returned map, unchanged (shown on the pairs whose key no other
\* task shares).
C9_FailureIsolation ==
    pc = "returned" =>
        \A j \in Tasks : TaskFailed(j) =>
            \A i \in Tasks \ {j} : (task[i].st = "done" /\ KeyUnique(i)) =>
                /\ TaskKey(i) \in DOMAIN result
                /\ Range(result[TaskKey(i)]) = task[i].covered_regions

---------------------------------------------------------------------------
(* Properties of the Report Pipeline. *)

\* The history that holds the calls of the tool for task (or position) i.
History(m, tool, i) == rcalls[m][IF tool = "cp+extract" THEN 0 ELSE i]

\* The calls of the given tool that task i of mode m has made so far (for
\* cp+extract: that the staging loop has made for the i-th benchmark).
CallsOf(m, tool, i) ==
    {n \in DOMAIN History(m, tool, i) :
        History(m, tool, i)[n].tool = tool /\ History(m, tool, i)[n].task = i}

\* logger.error('Profdata files merging failed.') was written by task i.
MergeFailed(m, i) == [task |-> i, msg |-> "merging failed"] \in rlog[m]

\* C11: when the merge tool exits non-zero for a pair, the failure is logged
\* and the rendering tool is not run for that pair, while every other pair
\* is fetched, merged and rendered.
C11_FailedMergeSkipsReport ==
    \A m \in Modes : \A i \in ReportTasks :
        MergeFailed(m, i) =>
            /\ CallsOf(m, "llvm-cov show", i) = {}
            /\ ReportsFinished(m) =>
                  \A j \in ReportTasks \ {i} :
                      /\ CallsOf(m, "fetch", j) # {}
                      /\ CallsOf(m, "llvm-profdata merge", j) # {}
                      /\ MergeFailed(m, j) \/ CallsOf(m, "llvm-cov show", j) # {}

\* The positions, in the caller's list, of the experiments that have an
\* archive of the benchmark in the store.
WithArchive(benchmark) ==
    {n \in DOMAIN report_args.experiments :
        <<report_args.experiments[n], benchmark>> \in ArchiveStore}

\* C12: for every benchmark that set_up_coverage_files has passed, exactly
\* the archive of the first experiment that has one was copied and extracted,
\* once; when no experiment has one, nothing was copied and the loop went on
\* to the next benchmark.
C12_FirstArchiveStaged ==
    \A m \in Modes : \A k \in 1..staged[m] :
        LET benchmark == report_args.benchmarks[k]
            copies == CallsOf(m, "cp+extract", k)
        IN  IF WithArchive(benchmark) = {}
            THEN /\ copies = {}
                 /\ bench_dir[m][benchmark] = "none"
            ELSE LET first == report_args.experiments[
                                 CHOOSE n \in WithArchive(benchmark) :
                                     \A o \in WithArchive(benchmark) : n <= o]
                 IN  /\ Cardinality(copies) = 1
                     /\ \A n \in copies : rcalls[m][0][n].experiment = first
                     /\ bench_dir[m][benchmark] = first

\* A benchmark without any archive was passed, and after it a benchmark was
\* staged from the first of two experiments that both have its archive.
C12_Witness ==
    \E m \in Modes : \E k \in 1..staged[m] : \E l \in 1..staged[m] :
        /\ k < l
        /\ WithArchive(report_args.benchmarks[k]) = {}
        /\ Cardinality(WithArchive(report_args.benchmarks[l])) > 1
        /\ CallsOf(m, "cp+extract", l) # {}

---------------------------------------------------------------------------
(* Further properties of the Aggregation Engine. *)

\* C13: the receive loop is left only from the queue.Empty handler, with
\* result.ready() true, never right after a successful q.get; once it is
\* left (and the sets are converted and returned) no task is incomplete.
C13_ExitOnlyWhenReady ==
    /\ [](LoopExited => ResultReady)
    /\ [][(~LoopExited /\ LoopExited') => (pc = "empty" /\ ResultReady)]_vars

\* The loop was left after at least one message had been received and while
\* some task had ended by raising.
C13_Witness ==
    /\ pc = "exited"
    /\ received # <<>>
    /\ \E i \in Tasks : task[i].st = "raised"

\* C14: a task puts at most one message, and only after every trial of its
\* pair has been processed; a task that has returned has put exactly one,
\* the single-entry mapping from the key of its own pair to the union of
\* what its trials gave.
C14_OneMessagePerTask ==
    \A i \in Tasks :
        /\ Len(task[i].puts) <= 1
        /\ task[i].puts # <<>> =>
              /\ Len(task[i].rets) = Len(TaskTrialIds(i))
              /\ DOMAIN task[i].puts[1] = {TaskKey(i)}
              /\ task[i].puts[1][TaskKey(i)] = UNION Range(task[i].rets)
        /\ task[i].st = "done" => Len(task[i].puts) = 1
        /\ task[i].st \in {"queued", "summary", "regions", "put", "raised"} =>
              task[i].puts = <<>>

\* A task with two trials has returned, after its one put.
C14_Witness ==
    \E i \in Tasks :
        /\ task[i].st = "done"
        /\ Len(TaskTrialIds(i)) = 2
        /\ Len(task[i].puts) = 1

\* The external call of some task hangs.
SomeStuck == \E i \in Tasks : task[i].st = "stuck"

\* Every task other than the stuck one has run to its end and every message
\* put has been received and merged.
OthersDelivered ==
    /\ \A j \in Tasks : task[j].st # "stuck" => Finished(j)
    /\ q = <<>>

\* Every chunk of the map is a single task: len(args) <= 4 * processes.
SingleTaskChunks == Cardinality(Tasks) <= 4 * poolSize

\* C15 (as stated): whatever the pool size, once the external call of one
\* task hangs, every other task is eventually run to its end and its result
\* received and merged.
C15_StuckStallsOnlyItsSlot == SomeStuck ~> OthersDelivered

\* C15 (amended): the same, for a pool of at least two worker processes that
\* takes the tasks one by one.
C15_StuckStallsOnlyItsSlotOfMany ==
    (SomeStuck /\ poolSize >= 2 /\ SingleTaskChunks) ~> OthersDelivered

\* The call of one task hangs in a pool of two; every other task has ended,
\* one of them after the hang, and its message has been received.
C15_Witness ==
    /\ SomeStuck
    /\ poolSize >= 2
    /\ OthersDelivered
    /\ \E i \in Tasks : \E j \in Tasks :
          /\ i < j
          /\ task[i].st = "stuck"
          /\ task[j].st = "done"
          /\ received # <<>>

\* logger.error of generate_summary: the export tool exited non-zero for t.
ExportFailed(t) == [trial_id |-> t, msg |-> "summary generation failed"] \in log

\* C16: the step in which the export tool exits non-zero for a trial, and
\* generate_summary logs it, leaves its task at the extraction of that same trial; a task that has
\* returned with such a trial among its own has processed every trial and
\* put its message.
C16_ExportFailureContinues ==
    /\ [][\A i \in Tasks :
            (/\ task[i].st = "summary"
             /\ task'[i] # task[i]
             /\ ~ExportFailed(TaskTrial(i))
             /\ ExportFailed(TaskTrial(i))')
            => /\ task'[i].st = "regions"
               /\ task'[i].idx = task[i].idx]_vars
    /\ [](\A i \in Tasks :
            (task[i].st = "done" /\ \E t \in Range(TaskTrialIds(i)) : ExportFailed(t))
            => /\ Len(task[i].rets) = Len(TaskTrialIds(i))
               /\ Len(task[i].puts) = 1)

\* A task of two trials has put its message and returned although the export
\* failed for its first trial.
C16_Witness ==
    \E i \in Tasks :
        /\ task[i].st = "done"
        /\ Len(TaskTrialIds(i)) = 2
        /\ ExportFailed(TaskTrialIds(i)[1])
        /\ Len(task[i].puts) = 1

\* The (fuzzer, benchmark) pair of task i.
TaskPair(i) ==
    <<get_covered_region_args[i].fuzzer, get_covered_region_args[i].benchmark>>

\* C17: two tasks that have computed their keys and whose (fuzzer,
\* benchmark) pairs differ have different keys.
C17_KeyInjective ==
    \A i \in Tasks : \A j \in Tasks :
        (/\ task[i].st # "queued"
         /\ task[j].st # "queued"
         /\ TaskPair(i) # TaskPair(j))
        => TaskKey(i) # TaskKey(j)

\* The names of the raw profile files that task i fetches for its pair.
FetchedNames(i) ==
    LET files == FetchedFiles(report_args.experiments,
                              generate_cov_report_args[i].fuzzer,
                              generate_cov_report_args[i].benchmark)
    IN  {files[n].name : n \in DOMAIN files}

\* C18: the input files of every call of the merge tool are exactly the raw
\* profile files fetched for the pair of the task that makes the call.
C18_MergeInputsAreFetchedProfiles ==
    \A m \in Modes : \A i \in ReportTasks :
        \A n \in CallsOf(m, "llvm-profdata merge", i) :
            rcalls[m][i][n].inputs = FetchedNames(i)

---------------------------------------------------------------------------
(* The files the worker tasks write. A path is the tuple of the components *)
(* that os.path.join puts together; a name is the name of a directory of   *)
(* fuzzers/ or benchmarks/ and has no separator in it.                     *)

\* TrialCoverage.cov_summary_file: .../measurement-folders/<trial dir of
\* fuzzer, benchmark, trial_num>/reports/cov_summary.json
cov_summary_file(fuzzer, benchmark, trial_num) ==
    <<"measurement-folders", fuzzer, benchmark, trial_num, "reports",
      "cov_summary.json">>

\* The summary files that task i of the engine has opened for writing: those
\* of the trials up to the one it is at.
EngineWrites(i) ==
    {cov_summary_file(get_covered_region_args[i].fuzzer,
                      get_covered_region_args[i].benchmark,
                      TaskTrialIds(i)[k]) : k \in 1..task[i].idx}

\* The (benchmark, fuzzer) pair of task i of the Report Pipeline.
ReportPair(i) ==
    <<generate_cov_report_args[i].benchmark, generate_cov_report_args[i].fuzzer>>

\* os.path.join(self.fuzzer_report_dir, name)
ReportPath(i, name) == Append(fuzzer_report_dir(i), name)

RenderFailed(m, i) == [task |-> i, msg |-> "report generation failed"] \in rlog[m]

\* The files that task i of the Report Pipeline has written in mode m.
ReportWrites(m, i) ==
    (IF rtask[m][i] # "queued"
     THEN {ReportPath(i, name) : name \in FetchedNames(i)} ELSE {})
    \cup (IF rtask[m][i] \in {"report", "done"} /\ ~MergeFailed(m, i)
          THEN {ReportPath(i, merged_profdata_file)} ELSE {})
    \cup (IF rtask[m][i] = "done" /\ ~RenderFailed(m, i)
          THEN {ReportPath(i, index_html)} ELSE {})

\* Task i of the Report Pipeline is being run by a worker process.
ReportRunning(m, i) == rtask[m][i] \in {"merge", "report"}

\* What the archive of a benchmark is extracted to: report_dir/<benchmark>/src
\* and the binary of the fuzz target.
StagedEntries == {<<"s", "r", "c">>, <<"f", "u", "z", "z", "-", "t", "a", "r", "g", "e", "t">>}

\* The path lies in or under a staged entry of its benchmark directory.
UnderStaged(path) == path[2] \in StagedEntries

StepsOfTask == <<"fetch", "llvm-profdata merge", "llvm-cov show">>

\* C20: in both modes no task has started before set_up_coverage_files has
\* passed every benchmark, no benchmark is staged once a task has started,
\* and the calls of each task are, in this order, fetch, merge, render.
C20_StagingThenFetchMergeRender ==
    /\ [](\A m \in Modes : \A i \in ReportTasks :
            /\ rtask[m][i] # "queued" => staged[m] = Len(report_args.benchmarks)
            /\ Len(rcalls[m][i]) <= Len(StepsOfTask)
            /\ \A n \in DOMAIN rcalls[m][i] : rcalls[m][i][n].tool = StepsOfTask[n])
    /\ [][\A m \in Modes :
            (staged'[m] # staged[m] \/ rcalls'[m][0] # rcalls[m][0])
            => \A i \in ReportTasks : rtask[m][i] = "queued" /\ rcalls[m][i] = <<>>]_vars

\* In the pool, after two benchmarks were passed by the staging loop, a task
\* has made its three calls while another task is between its calls.
C20_Witness ==
    /\ Len(report_args.benchmarks) = 2
    /\ staged["parallel"] = 2
    /\ \E i \in ReportTasks : \E j \in ReportTasks :
          /\ Len(rcalls["parallel"][i]) = 3
          /\ rtask["parallel"][j] \in {"merge", "report"}

====
